---- MODULE Spec2Model ----
(***************************************************************************)
(* Model of the RAG backend's vector-store lifecycle (app/vectorstore.py), *)
(* of the rate-limited callers of the two providers (app/embedding.py,     *)
(* app/llm_setup.py) and of the /ask orchestration (app/routes.py).        *)
(*                                                                         *)
(* The vector store is a module-level singleton.  add_documents runs in    *)
(* background tasks that are plain functions, so they execute on pool      *)
(* threads and interleave with each other at statement granularity; the    *)
(* store takes no lock.  A second specification lets the process stop and  *)
(* start again over the same disk.                                         *)
(* Further specifications add the /clear operation to the store's threads,*)
(* answer one /ask request over a wider retrieval, and run the batching    *)
(* loop of embed_documents.                                                *)
(***************************************************************************)
EXTENDS Integers, Sequences, FiniteSets, TLC

\* ------------------------------------------------------------------ bounds
MaxBatch == 2        \* number of chunks in a non-empty add_documents call
MaxDiskDocs == 1     \* documents held by the index found on disk at start
Horizon == 2         \* longest remaining sleep that is told apart
MaxRetrieved == 2    \* chunks a retrieval returns
MaxChunks == 6       \* chunks a retrieval returns when configured with a larger k
MaxTexts == 3        \* texts handed to embed_documents
MaxBatchSize == 2    \* largest value tried for settings.embedding_batch_size

\* Two pool threads run the requests' tasks; the first runs two calls one
\* after the other while the second runs one call at any time in between.
Threads == {"t1", "t2"}

CallsOf == [t1 |-> 2, t2 |-> 1]

\* the input of add_documents is empty or a batch of chunks
BatchSizes == {0, MaxBatch}

VARIABLES
    vectorstore,   \* self._vectorstore: 0 is None, else a position in handles
    handles,       \* the FAISS objects built so far: [index, docstore]
    documents,     \* self._documents
    disk,          \* the two companion artifacts <index_path>.faiss / .pkl
    pc,            \* per thread: the statement it is at
    call,          \* per thread: the operation in progress and its input
    local,         \* per thread: local variable `vectorstore` (a handle)
    data,          \* per thread: local variable `data` of load_index
    ncalls,        \* per thread: calls started so far
    ret,           \* outcome of the call that finished last
    sumReturned,   \* sum of the counts returned by add_documents so far
    added,         \* per thread: vectors / entries the running call inserted
    pre,           \* per thread: the store as the running call found it
    embedReqs,     \* requests sent to the embedding backend: <<origin, route>>
    persisted,     \* the store a complete, undisturbed save_index wrote last
    sinceLast,     \* per provider: time.time() - self._last_request_time
    rpc,           \* per caller: where it is in the rate-limited caller
    job,           \* per caller: provider, operation and retrieved chunks
    attempt,       \* per caller: loop variable `attempt`
    sleep,         \* per caller: time left of the current time.sleep
    attempts,      \* per caller: times the unit of work was invoked
    sleeps,        \* per caller: backoff sleeps taken
    lastErr,       \* per caller: how the last attempt ended
    inner,         \* per caller: outcome of the rate-limited caller
    outcome,       \* per caller: outcome of embed_query / generate_rag_answer
    response,      \* per caller: the /ask response
    texts,         \* embed_documents: local variable `texts`
    batch_size,    \* embed_documents: local variable `batch_size`
    offset,        \* embed_documents: loop variable `i`
    all_embeddings,\* embed_documents: local variable `all_embeddings`
    batches,       \* the batches the running attempt sent to the backend
    epc,           \* embed_documents: the statement it is at
    etry,          \* embed_documents: loop variable `attempt` of the retry
    embedded       \* embed_documents: its outcome

storeVars == <<vectorstore, handles, documents, disk, pc, call, local, data,
               ncalls, ret, sumReturned, added, pre, embedReqs, persisted>>

retryVars == <<sinceLast, rpc, job, attempt, sleep, attempts, sleeps,
               lastErr, inner, outcome, response>>

embedVars == <<texts, batch_size, offset, all_embeddings, batches, epc, etry,
               embedded>>

vars == <<storeVars, retryVars, embedVars>>

None == 0

\* An artifact on disk: missing, unreadable, or holding what was written.
Absent == [st |-> "absent", index |-> <<>>, documents |-> <<>>, docstore |-> <<>>]

Corrupt == [st |-> "corrupt", index |-> <<>>, documents |-> <<>>, docstore |-> <<>>]

OnDiskNoDocuments(ix, docs, ds) ==
    [st |-> "ok", index |-> ix, documents |-> <<>>, docstore |-> ds]

OnDisk(ix, docs, ds) == [st |-> "ok", index |-> ix, documents |-> docs, docstore |-> ds]

\* A FAISS object: the similarity index and the docstore with its
\* index_to_docstore_id mapping, each as the sequence of chunk tags it holds.
NewHandleNoDocstore(ix, ds) == [index |-> ix, docstore |-> <<>>]

NewHandle(ix, ds) == [index |-> ix, docstore |-> ds]

Repeat(x, n) == [i \in 1..n |-> x]

get_document_count_of_index ==
    IF vectorstore = None THEN 0 ELSE Len(handles[vectorstore].index)

\* len(self._documents)
get_document_count == Len(documents)

\* os.path.exists(index_file) and os.path.exists(pkl_file)
index_exists_either == disk.faiss.st # "absent" \/ disk.pkl.st # "absent"

index_exists == disk.faiss.st # "absent" /\ disk.pkl.st # "absent"

Readable == disk.faiss.st = "ok" /\ disk.pkl.st = "ok"

IndexCount(h) == IF h = None THEN 0 ELSE Len(handles[h].index)

EntryCount(h) == IF h = None THEN 0 ELSE Len(handles[h].docstore)

Idle == [kind |-> "none", docs |-> <<>>]

NoAdded == [vectors |-> 0, entries |-> 0]

NoSnapshot == [ntotal |-> 0, count |-> 0, alone |-> FALSE]

\* What a caller can observe when its call starts, and whether any other
\* call has been started before or is running.
Snapshot(t) ==
    [ntotal |-> IndexCount(vectorstore), count |-> get_document_count,
     alone |-> \A u \in Threads \ {t} : ncalls[u] = 0]

NoResult == [st |-> "none", kind |-> "none", n |-> 0, hits |-> <<>>]

Failed(k) == [st |-> "failed", kind |-> k, n |-> 0, hits |-> <<>>]

Returned(n) == [st |-> "returned", kind |-> "add", n |-> n, hits |-> <<>>]

Results(h) == [st |-> "results", kind |-> "search", n |-> Len(h), hits |-> h]

\* routes.py 184-187: the 400 answer of /ask on an empty knowledge base
EmptyKnowledgeBase == [st |-> "rejected", kind |-> "ask", n |-> 400, hits |-> <<>>]

\* routes.py 256-260: the answer of /stats
Stats(count, exists) ==
    [st |-> "stats", kind |-> "stats", n |-> count, hits |-> <<>>, exists |-> exists]

Request(origin, route) == <<origin, route>>

\* The embedding object handed to the FAISS wrapper is the backend client
\* returned by mistral_embedding.get_embeddings(); the wrapper calls it
\* itself, so a store request reaches the backend by this route.
StoreRoute == "direct"

DiskDocs(d) == Repeat(<<"disk", 0>>, d)

\* What is known of the last save_index: nothing, that thread t has written
\* the index artifact while no other call was running, or the store in
\* memory that a save_index wrote in full while no other call was running.
NoPersist == [st |-> "none", index |-> <<>>, docstore |-> <<>>, documents |-> <<>>]

Writing(t) == [st |-> t, index |-> <<>>, docstore |-> <<>>, documents |-> <<>>]

Saved(h, docs) ==
    [st |-> "saved", index |-> h.index, docstore |-> h.docstore, documents |-> docs]

OthersIdle(t) == \A u \in Threads \ {t} : pc[u] = "idle"

StoreInit ==
    /\ vectorstore = None
    /\ handles = <<>>
    /\ documents = <<>>
    /\ \E d \in 0..MaxDiskDocs :
          disk = IF d = 0
                 THEN [faiss |-> Absent, pkl |-> Absent]
                 ELSE [faiss |-> OnDisk(DiskDocs(d), <<>>, <<>>),
                       pkl |-> OnDisk(<<>>, DiskDocs(d), DiskDocs(d))]
    /\ pc = [t \in Threads |-> "idle"]
    /\ call = [t \in Threads |-> Idle]
    /\ local = [t \in Threads |-> None]
    /\ data = [t \in Threads |-> <<>>]
    /\ ncalls = [t \in Threads |-> 0]
    /\ ret = NoResult
    /\ sumReturned = 0
    /\ added = [t \in Threads |-> NoAdded]
    /\ pre = [t \in Threads |-> NoSnapshot]
    /\ embedReqs = {}
    /\ persisted = NoPersist

\* The call of thread t ends with outcome r: its frame is dropped.
Leave(t, r) ==
    /\ pc' = [pc EXCEPT ![t] = "idle"]
    /\ call' = [call EXCEPT ![t] = Idle]
    /\ local' = [local EXCEPT ![t] = None]
    /\ added' = [added EXCEPT ![t] = NoAdded]
    /\ pre' = [pre EXCEPT ![t] = NoSnapshot]
    /\ ret' = r
    /\ sumReturned' = IF r.st = "returned" THEN sumReturned + r.n ELSE sumReturned

Goto(t, label) ==
    /\ pc' = [pc EXCEPT ![t] = label]
    /\ UNCHANGED <<call, local, added, pre, ret, sumReturned>>

\* ------------------------------------------------------- get_vectorstore
NeedsInitUnlessFailed == vectorstore = None /\ ret.st # "failed"

\* vectorstore.py 69: the bare test `self._vectorstore is None`.
NeedsInit == vectorstore = None

get_vectorstore(t) == IF NeedsInit THEN "load" ELSE "ret"

\* ------------------------------------------------- add_documents, entry
\* vectorstore.py 78-84: a call with no documents returns 0 at once;
\* any other call starts with get_vectorstore.
StartAdd(t, n) ==
    /\ pc[t] = "idle"
    /\ ncalls[t] < CallsOf[t]
    /\ ncalls' = [ncalls EXCEPT ![t] = @ + 1]
    /\ IF n = 0
       THEN /\ ret' = Returned(0)
            /\ UNCHANGED <<pc, call, pre>>
       ELSE /\ pc' = [pc EXCEPT ![t] = get_vectorstore(t)]
            /\ call' = [call EXCEPT ![t] =
                          [kind |-> "add", docs |-> Repeat(<<t, ncalls[t] + 1>>, n)]]
            /\ pre' = [pre EXCEPT ![t] = Snapshot(t)]
            /\ UNCHANGED ret
    /\ UNCHANGED <<vectorstore, handles, documents, disk, persisted, local,
                   data,
                   sumReturned, added, embedReqs>>

\* vectorstore.py 103-106
StartSearch(t) ==
    /\ pc[t] = "idle"
    /\ ncalls[t] < CallsOf[t]
    /\ ncalls' = [ncalls EXCEPT ![t] = @ + 1]
    /\ pc' = [pc EXCEPT ![t] = get_vectorstore(t)]
    /\ call' = [call EXCEPT ![t] = [kind |-> "search", docs |-> <<>>]]
    /\ UNCHANGED <<vectorstore, handles, documents, disk, persisted, local,
                   data,
                   ret, sumReturned, added, pre, embedReqs>>

KnowledgeBaseEmptyOnDiskToo == get_document_count = 0 /\ ~index_exists

\* routes.py 183
KnowledgeBaseEmpty == get_document_count = 0

\* routes.py 174-192: /ask answers 400 when no document is counted and
\* otherwise goes on to similarity_search.
StartAsk(t) ==
    /\ pc[t] = "idle"
    /\ ncalls[t] < CallsOf[t]
    /\ ncalls' = [ncalls EXCEPT ![t] = @ + 1]
    /\ IF KnowledgeBaseEmpty
       THEN /\ ret' = EmptyKnowledgeBase
            /\ UNCHANGED <<pc, call>>
       ELSE /\ pc' = [pc EXCEPT ![t] = get_vectorstore(t)]
            /\ call' = [call EXCEPT ![t] = [kind |-> "ask", docs |-> <<>>]]
            /\ UNCHANGED ret
    /\ UNCHANGED <<vectorstore, handles, documents, disk, persisted, local,
                   data,
                   sumReturned, added, pre, embedReqs>>

\* routes.py 252-260: /stats answers with the two queries' results.
get_stats(t) ==
    /\ pc[t] = "idle"
    /\ ncalls[t] < CallsOf[t]
    /\ ncalls' = [ncalls EXCEPT ![t] = @ + 1]
    /\ ret' = Stats(get_document_count, index_exists)
    /\ UNCHANGED <<vectorstore, handles, documents, disk, persisted, pc, call,
                   local, data,
                   sumReturned, added, pre, embedReqs>>

\* vectorstore.py 170-192: False when an artifact is missing or a read
\* raises; otherwise the FAISS object is rebuilt and stored first.
load_index(t) ==
    /\ pc[t] = "load"
    /\ \/ /\ ~index_exists
          /\ Goto(t, "create")
          /\ UNCHANGED <<vectorstore, handles, data>>
       \/ /\ index_exists                              \* a read raises
          /\ Goto(t, "create")
          /\ UNCHANGED <<vectorstore, handles, data>>
       \/ /\ index_exists /\ Readable
          /\ handles' = Append(handles, NewHandle(disk.faiss.index, disk.pkl.docstore))
          /\ vectorstore' = Len(handles) + 1
          /\ data' = [data EXCEPT ![t] = disk.pkl.documents]
          /\ Goto(t, "load2")
    /\ UNCHANGED <<documents, disk, persisted, ncalls, embedReqs>>

\* vectorstore.py 194-200: the document list is replaced by the pickled one.
load_documents(t) ==
    /\ pc[t] = "load2"
    /\ documents' = data[t]
    /\ data' = [data EXCEPT ![t] = <<>>]
    /\ Goto(t, "ret")
    /\ UNCHANGED <<vectorstore, handles, disk, persisted, ncalls, embedReqs>>

\* vectorstore.py 73-74 with 23-43: the fresh index is built by embedding a
\* dummy document and deleting it again; any failure in there is re-raised
\* and leaves self._vectorstore as it was.
create_new_vectorstore(t) ==
    /\ pc[t] = "create"
    /\ embedReqs' = embedReqs \cup {Request("create", StoreRoute)}
    /\ \/ /\ Leave(t, Failed(call[t].kind))
          /\ UNCHANGED <<vectorstore, handles>>
       \/ /\ handles' = Append(handles, NewHandle(<<>>, <<>>))
          /\ vectorstore' = Len(handles) + 1
          /\ Goto(t, "ret")
    /\ UNCHANGED <<documents, disk, persisted, data, ncalls>>

\* vectorstore.py 76: `return self._vectorstore` reads the attribute again.
return_vectorstore(t) ==
    /\ pc[t] = "ret"
    /\ pc' = [pc EXCEPT ![t] = IF call[t].kind = "add" THEN "insert" ELSE "search"]
    /\ local' = [local EXCEPT ![t] = vectorstore]
    /\ UNCHANGED <<vectorstore, handles, documents, disk, persisted, call, data,
                   ncalls,
                   ret, sumReturned, added, pre, embedReqs>>

\* -------------------------------------------------- add_documents, body
\* vectorstore.py 87: the FAISS wrapper embeds every text first and only
\* then appends the vectors and their docstore entries to the object the
\* caller holds; a failed embedding raises before anything is appended.
\* Called on None (the attribute was reset after the test of line 69) it
\* raises before anything is sent.
InsertedFirstOnly(h, docs) ==
    [index |-> Append(h.index, docs[1]), docstore |-> Append(h.docstore, docs[1])]

Inserted(h, docs) == [index |-> h.index \o docs, docstore |-> h.docstore \o docs]

insert_documents(t) ==
    /\ pc[t] = "insert"
    /\ embedReqs' = IF local[t] = None THEN embedReqs
                     ELSE embedReqs \cup {Request("add", StoreRoute)}
    /\ \/ /\ Leave(t, Failed("add"))
          /\ UNCHANGED handles
       \/ /\ local[t] # None
          /\ handles' = [handles EXCEPT ![local[t]] = Inserted(@, call[t].docs)]
          /\ added' = [added EXCEPT ![t].vectors =
                          @ + Len(handles'[local[t]].index) - Len(handles[local[t]].index)]
          /\ pc' = [pc EXCEPT ![t] = "extend"]
          /\ UNCHANGED <<call, local, pre, ret, sumReturned>>
    /\ UNCHANGED <<vectorstore, documents, disk, persisted, data, ncalls>>

ExtendedByNothing(list, docs) == list

\* vectorstore.py 90
Extended(list, docs) == list \o docs

extend_documents(t) ==
    /\ pc[t] = "extend"
    /\ documents' = Extended(documents, call[t].docs)
    /\ added' = [added EXCEPT ![t].entries = @ + Len(documents') - Len(documents)]
    /\ pc' = [pc EXCEPT ![t] = "save1"]
    /\ UNCHANGED <<vectorstore, handles, disk, persisted, call, local, data,
                   ncalls, ret,
                   sumReturned, pre, embedReqs>>

\* vectorstore.py 97
ReturnCount(t) == Len(call[t].docs)

\* vectorstore.py 137-153: the index of whatever self._vectorstore holds
\* now is written first.  Every exception of save_index is logged and
\* swallowed (165-166), so add_documents goes on to return the count.
save_index_faiss(t) ==
    /\ pc[t] = "save1"
    /\ \/ /\ vectorstore # None
          /\ disk' = [disk EXCEPT !.faiss =
                         OnDisk(handles[vectorstore].index, <<>>, <<>>)]
          /\ persisted' = IF OthersIdle(t) THEN Writing(t) ELSE NoPersist
          /\ Goto(t, "save2")
       \/ /\ vectorstore # None                        \* the write raises
          /\ \E f \in {disk.faiss, Corrupt} : disk' = [disk EXCEPT !.faiss = f]
          /\ persisted' = NoPersist
          /\ Leave(t, Returned(ReturnCount(t)))
       \/ /\ vectorstore = None
          /\ UNCHANGED <<disk, persisted>>
          /\ Leave(t, Returned(ReturnCount(t)))
    /\ UNCHANGED <<vectorstore, handles, documents, data, ncalls, embedReqs>>

\* vectorstore.py 156-163: then the pickle with the document list, the
\* docstore and the position-to-id mapping.
save_index_pkl(t) ==
    /\ pc[t] = "save2"
    /\ \/ /\ vectorstore # None
          /\ disk' = [disk EXCEPT !.pkl =
                        OnDisk(<<>>, documents, handles[vectorstore].docstore)]
          /\ persisted' = IF persisted = Writing(t) /\ OthersIdle(t)
                          THEN Saved(handles[vectorstore], documents)
                          ELSE NoPersist
       \/ /\ \E f \in {disk.pkl, Corrupt} : disk' = [disk EXCEPT !.pkl = f]
          /\ persisted' = NoPersist
    /\ Leave(t, Returned(ReturnCount(t)))
    /\ UNCHANGED <<vectorstore, handles, documents, data, ncalls, embedReqs>>

\* ------------------------------------------------------ similarity_search
\* vectorstore.py 109-116: the wrapper embeds the query and searches the
\* object the caller holds.
TopK == 5

Nearest(h) == IF Len(h.index) < TopK THEN Len(h.index) ELSE TopK

\* a position without a docstore entry makes the wrapper raise
Resolvable(h) == Nearest(h) <= Len(h.docstore)

Hits(h) == SubSeq(h.docstore, 1, Nearest(h))

similarity_search(t) ==
    /\ pc[t] = "search"
    /\ embedReqs' = IF local[t] = None THEN embedReqs
                     ELSE embedReqs \cup {Request("search", StoreRoute)}
    /\ \/ Leave(t, Failed("search"))
       \/ /\ local[t] # None
          /\ Resolvable(handles[local[t]])
          /\ Leave(t, Results(Hits(handles[local[t]])))
    /\ UNCHANGED <<vectorstore, handles, documents, disk, persisted, data, ncalls>>

\* ------------------------------------------------------------------ clear
\* models.py 47-56 declare the request and the response of /clear and
\* clear_demo.py 51-65 calls it; the handler itself is described by the
\* specification of the store: clear(confirm) refuses unless confirm is
\* true, and otherwise deletes both artifacts if present, resets the store
\* in memory to unloaded and empty and returns the number of documents
\* cleared and the files deleted.
Refused == [st |-> "refused", kind |-> "clear", n |-> 0, hits |-> <<>>, files |-> <<>>]

Cleared(n, files) ==
    [st |-> "cleared", kind |-> "clear", n |-> n, hits |-> <<>>, files |-> files]

Artifacts == <<"faiss", "pkl">>

FilesPresent == SelectSeq(Artifacts, LAMBDA f : disk[f].st # "absent")

ConfirmedAlways(confirm) == TRUE

Confirmed(confirm) == confirm

clear(t, confirm) ==
    /\ pc[t] = "idle"
    /\ ncalls[t] < CallsOf[t]
    /\ ncalls' = [ncalls EXCEPT ![t] = @ + 1]
    /\ IF Confirmed(confirm)
       THEN /\ ret' = Cleared(get_document_count, FilesPresent)
            /\ disk' = [faiss |-> Absent, pkl |-> Absent]
            /\ vectorstore' = None
            /\ documents' = <<>>
            /\ persisted' = NoPersist
       ELSE /\ ret' = Refused
            /\ UNCHANGED <<vectorstore, documents, disk, persisted>>
    /\ UNCHANGED <<handles, pc, call, local, data, sumReturned, added, pre,
                   embedReqs>>

\* The process stops, at any point, and is started again: the module-level
\* store is constructed anew and what is on disk stays.
Restart ==
    /\ vectorstore' = None
    /\ handles' = <<>>
    /\ documents' = <<>>
    /\ pc' = [t \in Threads |-> "idle"]
    /\ call' = [t \in Threads |-> Idle]
    /\ local' = [t \in Threads |-> None]
    /\ data' = [t \in Threads |-> <<>>]
    /\ ret' = NoResult
    /\ sumReturned' = 0
    /\ added' = [t \in Threads |-> NoAdded]
    /\ pre' = [t \in Threads |-> NoSnapshot]
    /\ embedReqs' = {}
    /\ persisted' = IF persisted.st = "saved" THEN persisted ELSE NoPersist
    /\ UNCHANGED <<disk, ncalls>>

\* Every step is one thread's; the rate-limited callers are at rest.
StoreNext ==
    \/ \E t \in Threads, n \in BatchSizes : StartAdd(t, n) /\ UNCHANGED <<retryVars, embedVars>>
    \/ \E t \in Threads : StartSearch(t) /\ UNCHANGED <<retryVars, embedVars>>
    \/ \E t \in Threads : StartAsk(t) /\ UNCHANGED <<retryVars, embedVars>>
    \/ \E t \in Threads : get_stats(t) /\ UNCHANGED <<retryVars, embedVars>>
    \/ \E t \in Threads : load_index(t) /\ UNCHANGED <<retryVars, embedVars>>
    \/ \E t \in Threads : load_documents(t) /\ UNCHANGED <<retryVars, embedVars>>
    \/ \E t \in Threads : create_new_vectorstore(t) /\ UNCHANGED <<retryVars, embedVars>>
    \/ \E t \in Threads : return_vectorstore(t) /\ UNCHANGED <<retryVars, embedVars>>
    \/ \E t \in Threads : insert_documents(t) /\ UNCHANGED <<retryVars, embedVars>>
    \/ \E t \in Threads : extend_documents(t) /\ UNCHANGED <<retryVars, embedVars>>
    \/ \E t \in Threads : save_index_faiss(t) /\ UNCHANGED <<retryVars, embedVars>>
    \/ \E t \in Threads : save_index_pkl(t) /\ UNCHANGED <<retryVars, embedVars>>
    \/ \E t \in Threads : similarity_search(t) /\ UNCHANGED <<retryVars, embedVars>>

\* ================================================== rate-limited callers
\* config.py 27-33; the embedding caller's backoff base and both jitter
\* bounds are literals of the retry loops.
llm_min_request_interval == 2

llm_base_delay == 5

llm_max_retries == 3

llm_jitter == 2

embedding_min_request_interval == 1

embedding_base_delay == 3

embedding_max_retries == 2

embedding_jitter == 1

Providers == {"embedding", "llm"}

MinInterval == [embedding |-> embedding_min_request_interval,
                llm |-> llm_min_request_interval]

BaseDelay == [embedding |-> embedding_base_delay, llm |-> llm_base_delay]

MaxRetries == [embedding |-> embedding_max_retries, llm |-> llm_max_retries]

Jitter == [embedding |-> embedding_jitter, llm |-> llm_jitter]

\* The callers: the event loop, which runs the /ask handlers one at a time
\* (query embedding, then completion), and a pool thread that embeds for a
\* background task.  Both providers are module-level singletons.
Callers == {"loop", "pool"}

MayCall == [loop |-> {"embedding", "llm"}, pool |-> {"embedding"}]

\* The text of a raised error, by the markers the retry loops look for.
Markers == {"429", "rate limit", "capacity exceeded"}

ErrorTexts == {{}} \cup {{m} : m \in Markers}

Success == [ok |-> TRUE, markers |-> {}]

Error(m) == [ok |-> FALSE, markers |-> m]

NoError == [ok |-> TRUE, markers |-> {"none"}]

DetectsEveryError(p, m) == TRUE

\* embedding.py 106 / llm_setup.py 102: the substring tests on str(e).lower()
DetectsRateLimit(p, m) ==
    IF p = "embedding"
    THEN "429" \in m \/ "rate limit" \in m
    ELSE "429" \in m \/ "rate limit" \in m \/ "capacity exceeded" \in m

Pow2(n) == IF n = 0 THEN 1 ELSE IF n = 1 THEN 2 ELSE IF n = 2 THEN 4 ELSE 8

\* embedding.py 108 / llm_setup.py 105, the jitter drawn as j
Delay(p, a, j) == BaseDelay[p] * Pow2(a) + j

Min(a, b) == IF a < b THEN a ELSE b

\* time.sleep(d) returns after d or later.  Horizon is no shorter than any
\* limiter's interval: once it has passed, every clock reads "long ago", so
\* a longer remainder is kept as Horizon and the sleeper still wakes no
\* earlier than any clock can tell.
Sleeping(d) == Min(d, Horizon)

NoJob == [prov |-> "none", kind |-> "none", results |-> <<>>]

NoOutcome == [kind |-> "none"]

Value == [kind |-> "value"]

Fallback == [kind |-> "fallback"]

Raised == [kind |-> "raised"]

NoResponse == [status |-> 0, answer |-> "none", citations |-> <<>>]

RetryAtRest ==
    /\ sinceLast = [p \in Providers |-> MinInterval[p]]
    /\ rpc = [c \in Callers |-> "idle"]
    /\ job = [c \in Callers |-> NoJob]
    /\ attempt = [c \in Callers |-> 0]
    /\ sleep = [c \in Callers |-> 0]
    /\ attempts = [c \in Callers |-> 0]
    /\ sleeps = [c \in Callers |-> 0]
    /\ lastErr = [c \in Callers |-> NoError]
    /\ inner = [c \in Callers |-> NoOutcome]
    /\ outcome = [c \in Callers |-> NoOutcome]
    /\ response = [c \in Callers |-> NoResponse]

StoreAtRest ==
    /\ vectorstore = None
    /\ handles = <<>>
    /\ documents = <<>>
    /\ disk = [faiss |-> Absent, pkl |-> Absent]
    /\ pc = [t \in Threads |-> "idle"]
    /\ call = [t \in Threads |-> Idle]
    /\ local = [t \in Threads |-> None]
    /\ data = [t \in Threads |-> <<>>]
    /\ ncalls = [t \in Threads |-> 0]
    /\ ret = NoResult
    /\ sumReturned = 0
    /\ added = [t \in Threads |-> NoAdded]
    /\ pre = [t \in Threads |-> NoSnapshot]
    /\ embedReqs = {}
    /\ persisted = NoPersist

\* ------------------------------------------------------------- /ask, tail
\* routes.py 201-203: the retrieved chunks, closest first, as
\* [source, distance]; distances and scores in tenths.
Sources == {"", "doc1", "https://a"}

\* the sources of a wider retrieval, in the order they first appear
SourceNames == <<"doc1", "https://a", "doc2", "https://b", "doc3", "https://c",
                 "doc4", "https://d">>

\* routes.py 220: source.startswith('http://') or source.startswith('https://')
IsUrl(src) == src \in {"https://a", "https://b", "https://c", "https://d"}

Chunk(src, d) == [source |-> src, distance |-> d]

Retrieved ==
    UNION {[1..n -> {Chunk(src, 1) : src \in Sources}] : n \in 1..MaxRetrieved}

NoChunks == <<>>

\* the sources a chunk after rs may have: none, one seen before, or the next
\* new one
SourcesAfter(rs) ==
    LET seen == {rs[i].source : i \in 1..Len(rs)} \ {""} IN
    {""} \cup seen \cup {SourceNames[Cardinality(seen) + 1]}

RECURSIVE Ranked(_)
\* the retrievals of n chunks, closest first: the chunk at rank i is at
\* distance i
Ranked(n) ==
    IF n = 0 THEN {<<>>}
    ELSE UNION {{Append(rs, Chunk(src, n)) : src \in SourcesAfter(rs)} :
                  rs \in Ranked(n - 1)}

RetrievedWide == UNION {Ranked(n) : n \in 1..MaxChunks}

\* routes.py 218-233
Citation(r) ==
    [url |-> IF IsUrl(r.source) THEN r.source ELSE "Uploaded file: " \o r.source,
     relevance_score |-> 10 - r.distance,
     source_type |-> IF IsUrl(r.source) THEN "url" ELSE "document"]

RECURSIVE Collect(_, _, _)

CollectAll(rs, seen, acc) ==
    LET named == SelectSeq(rs, LAMBDA r : r.source # "") IN
    acc \o [k \in 1..Len(named) |-> Citation(named[k])]

\* routes.py 209-233: first occurrence of each non-empty source
Collect(rs, seen, acc) ==
    IF rs = <<>> THEN acc
    ELSE LET r == Head(rs) IN
         IF r.source # "" /\ r.source \notin seen
         THEN Collect(Tail(rs), seen \cup {r.source}, Append(acc, Citation(r)))
         ELSE Collect(Tail(rs), seen, acc)

MaxCitations == 5

CitationsOfFirstChunks(rs) ==
    Collect(SubSeq(rs, 1, Min(Len(rs), MaxCitations)), {}, <<>>)

\* routes.py 208-236
Citations(rs) ==
    LET all == Collect(rs, {}, <<>>) IN SubSeq(all, 1, Min(Len(all), MaxCitations))

OnExhaustedRaises(p) == Raised

\* embedding.py 113-115 / llm_setup.py 110-113: the retry budget is spent
OnExhausted(p) == IF p = "llm" THEN Fallback ELSE Raised

\* llm_setup.py 67-74: whatever _exponential_backoff_retry raises is caught
\* and replaced by the fallback text.
generate_rag_answer(r) == IF r.kind = "raised" THEN Fallback ELSE r

\* embedding.py 76-80: logged and re-raised
embed_query(r) == r

Public(kind, r) == IF kind = "ask" THEN generate_rag_answer(r) ELSE embed_query(r)

\* routes.py 206-250
ask_question(out, rs) ==
    IF out.kind = "raised"
    THEN [status |-> 500, answer |-> "none", citations |-> <<>>]
    ELSE [status |-> 200, answer |-> out.kind, citations |-> Citations(rs)]

\* ----------------------------------------------------------------- calls
\* the chunks retrieved for the request before the provider is called
RetrievedFor(p) == IF p = "llm" THEN Retrieved ELSE {NoChunks}

StartCall(c, p, rs) ==
    /\ rpc[c] = "idle"
    /\ p \in MayCall[c]
    /\ job' = [job EXCEPT ![c] =
                 [prov |-> p, kind |-> IF p = "llm" THEN "ask" ELSE "embed_query",
                  results |-> rs]]
    /\ rpc' = [rpc EXCEPT ![c] = "wait"]
    /\ attempt' = [attempt EXCEPT ![c] = 0]
    /\ attempts' = [attempts EXCEPT ![c] = 0]
    /\ sleeps' = [sleeps EXCEPT ![c] = 0]
    /\ lastErr' = [lastErr EXCEPT ![c] = NoError]
    /\ inner' = [inner EXCEPT ![c] = NoOutcome]
    /\ outcome' = [outcome EXCEPT ![c] = NoOutcome]
    /\ response' = [response EXCEPT ![c] = NoResponse]
    /\ UNCHANGED <<sinceLast, sleep>>

\* embedding.py 84-89 / llm_setup.py 78-84
SleepTime(p) == MinInterval[p] - sinceLast[p]

wait_for_rate_limit(c) ==
    /\ rpc[c] = "wait"
    /\ IF sinceLast[job[c].prov] < MinInterval[job[c].prov]
       THEN /\ sleep' = [sleep EXCEPT ![c] = Sleeping(SleepTime(job[c].prov))]
            /\ rpc' = [rpc EXCEPT ![c] = "pace"]
       ELSE /\ rpc' = [rpc EXCEPT ![c] = "stamp"]
            /\ UNCHANGED sleep
    /\ UNCHANGED <<sinceLast, job, attempt, attempts, sleeps, lastErr, inner,
                   outcome, response>>

\* embedding.py 91, 101 / llm_setup.py 86, 96: the time is stamped and the
\* unit of work is invoked.
start_attempt(c) ==
    /\ rpc[c] = "stamp" \/ (rpc[c] = "pace" /\ sleep[c] = 0)
    /\ sinceLast' = [sinceLast EXCEPT ![job[c].prov] = 0]
    /\ attempts' = [attempts EXCEPT ![c] = @ + 1]
    /\ lastErr' = [lastErr EXCEPT ![c] = NoError]
    /\ rpc' = [rpc EXCEPT ![c] = "call"]
    /\ UNCHANGED <<job, attempt, sleep, sleeps, inner, outcome, response>>

\* the rate-limited caller ends with r
Finish(c, r) ==
    /\ rpc' = [rpc EXCEPT ![c] = "idle"]
    /\ inner' = [inner EXCEPT ![c] = r]
    /\ outcome' = [outcome EXCEPT ![c] = Public(job[c].kind, r)]
    /\ response' = [response EXCEPT ![c] =
                      IF job[c].kind = "ask"
                      THEN ask_question(Public(job[c].kind, r), job[c].results)
                      ELSE NoResponse]
    /\ attempt' = [attempt EXCEPT ![c] = 0]
    /\ UNCHANGED <<sleep, sleeps>>

\* embedding.py 101 / llm_setup.py 96
attempt_returns(c) ==
    /\ rpc[c] = "call"
    /\ lastErr' = [lastErr EXCEPT ![c] = Success]
    /\ Finish(c, Value)
    /\ UNCHANGED <<sinceLast, job, attempts>>

\* embedding.py 103-117 / llm_setup.py 98-117
attempt_raises(c, m) ==
    /\ rpc[c] = "call"
    /\ lastErr' = [lastErr EXCEPT ![c] = Error(m)]
    /\ IF DetectsRateLimit(job[c].prov, m)
       THEN IF attempt[c] < MaxRetries[job[c].prov]
            THEN /\ \E j \in 0..Jitter[job[c].prov] :
                       sleep' = [sleep EXCEPT ![c] =
                                   Sleeping(Delay(job[c].prov, attempt[c], j))]
                 /\ sleeps' = [sleeps EXCEPT ![c] = @ + 1]
                 /\ rpc' = [rpc EXCEPT ![c] = "backoff"]
                 /\ UNCHANGED <<attempt, inner, outcome, response>>
            ELSE Finish(c, OnExhausted(job[c].prov))
       ELSE Finish(c, Raised)
    /\ UNCHANGED <<sinceLast, job, attempts>>

\* embedding.py 111-112 / llm_setup.py 108-109: time.sleep(delay); continue
next_attempt(c) ==
    /\ rpc[c] = "backoff"
    /\ sleep[c] = 0
    /\ attempt' = [attempt EXCEPT ![c] = @ + 1]
    /\ rpc' = [rpc EXCEPT ![c] = "wait"]
    /\ UNCHANGED <<sinceLast, job, sleep, attempts, sleeps, lastErr, inner,
                   outcome, response>>

\* One time unit passes: the clocks move on and every sleeper's remaining
\* time shrinks; a thread whose sleep is over may still be scheduled late.
Tick ==
    /\ \/ \E p \in Providers : sinceLast[p] < MinInterval[p]
       \/ \E c \in Callers : sleep[c] > 0
    /\ sinceLast' = [p \in Providers |-> Min(sinceLast[p] + 1, MinInterval[p])]
    /\ sleep' = [c \in Callers |-> IF sleep[c] > 0 THEN sleep[c] - 1 ELSE 0]
    /\ UNCHANGED <<rpc, job, attempt, attempts, sleeps, lastErr, inner,
                   outcome, response>>

\* Every step is one caller's, or the passing of time; the store is at rest.
RetryNext ==
    \/ \E c \in Callers, p \in Providers : \E rs \in RetrievedFor(p) :
          StartCall(c, p, rs) /\ UNCHANGED <<storeVars, embedVars>>
    \/ \E c \in Callers : wait_for_rate_limit(c) /\ UNCHANGED <<storeVars, embedVars>>
    \/ \E c \in Callers : start_attempt(c) /\ UNCHANGED <<storeVars, embedVars>>
    \/ \E c \in Callers : attempt_returns(c) /\ UNCHANGED <<storeVars, embedVars>>
    \/ \E c \in Callers, m \in ErrorTexts : attempt_raises(c, m) /\ UNCHANGED <<storeVars, embedVars>>
    \/ \E c \in Callers : next_attempt(c) /\ UNCHANGED <<storeVars, embedVars>>
    \/ Tick /\ UNCHANGED <<storeVars, embedVars>>

\* ======================================================== embed_documents
Alphabet == {"a", "b"}

TextLists == UNION {[1..n -> Alphabet] : n \in 0..MaxTexts}

\* embedding.py 55: the backend returns one vector per text of the batch
Vector(x) == [of |-> x]

Embeddings(batch) == [k \in 1..Len(batch) |-> Vector(batch[k])]

BatchOverlapping(ts, i, bs) == SubSeq(ts, i + 1, Min(i + bs + 1, Len(ts)))

\* embedding.py 48: texts[i:i + batch_size]
Batch(ts, i, bs) == SubSeq(ts, i + 1, Min(i + bs, Len(ts)))

NotEmbedded == [kind |-> "none", vectors |-> <<>>]

EmbeddedAs(vs) == [kind |-> "value", vectors |-> vs]

EmbedRaised == [kind |-> "raised", vectors |-> <<>>]

EmbedAtRest ==
    /\ texts = <<>>
    /\ batch_size = 1
    /\ offset = 0
    /\ all_embeddings = <<>>
    /\ batches = <<>>
    /\ epc = "idle"
    /\ etry = 0
    /\ embedded = NotEmbedded

\* embedding.py 34-47, 61: the retry loop invokes create_embeddings, which
\* starts with an empty all_embeddings
embed_documents(ts, bs) ==
    /\ epc = "idle"
    /\ texts' = ts
    /\ batch_size' = bs
    /\ offset' = 0
    /\ all_embeddings' = <<>>
    /\ batches' = <<>>
    /\ epc' = "loop"
    /\ etry' = 0
    /\ embedded' = NotEmbedded

\* embedding.py 47-56: one round of the loop over the batches
embed_batch ==
    /\ epc = "loop"
    /\ offset < Len(texts)
    /\ batches' = Append(batches, <<etry, Batch(texts, offset, batch_size)>>)
    /\ all_embeddings' = all_embeddings \o Embeddings(Batch(texts, offset, batch_size))
    /\ offset' = offset + batch_size
    /\ UNCHANGED <<texts, batch_size, epc, etry, embedded>>

\* embedding.py 55 raising, with 103-119: a detected rate-limit failure
\* with retries left invokes create_embeddings again from the start, any
\* other failure is raised
batch_raises(m) ==
    /\ epc = "loop"
    /\ offset < Len(texts)
    /\ batches' = Append(batches, <<etry, Batch(texts, offset, batch_size)>>)
    /\ IF DetectsRateLimit("embedding", m) /\ etry < embedding_max_retries
       THEN /\ etry' = etry + 1
            /\ offset' = 0
            /\ all_embeddings' = <<>>
            /\ UNCHANGED <<epc, embedded>>
       ELSE /\ epc' = "idle"
            /\ embedded' = EmbedRaised
            /\ UNCHANGED <<etry, offset, all_embeddings>>
    /\ UNCHANGED <<texts, batch_size>>

\* embedding.py 58-61
return_embeddings ==
    /\ epc = "loop"
    /\ offset >= Len(texts)
    /\ embedded' = EmbeddedAs(all_embeddings)
    /\ epc' = "idle"
    /\ UNCHANGED <<texts, batch_size, offset, all_embeddings, batches, etry>>

EmbedNext ==
    \/ \E ts \in TextLists, bs \in 1..MaxBatchSize :
          embed_documents(ts, bs) /\ UNCHANGED <<storeVars, retryVars>>
    \/ embed_batch /\ UNCHANGED <<storeVars, retryVars>>
    \/ \E m \in ErrorTexts : batch_raises(m) /\ UNCHANGED <<storeVars, retryVars>>
    \/ return_embeddings /\ UNCHANGED <<storeVars, retryVars>>

\* ------------------------------------------------------- specifications
Init == StoreInit /\ RetryAtRest /\ EmbedAtRest

Spec == Init /\ [][StoreNext]_vars

\* the store's threads and the restarts of the process
RestartNext == StoreNext \/ (Restart /\ UNCHANGED <<retryVars, embedVars>>)

SpecRestart == Init /\ [][RestartNext]_vars

InitRetry == StoreAtRest /\ RetryAtRest /\ EmbedAtRest

SpecRetry == InitRetry /\ [][RetryNext]_vars

\* the store's threads and the /clear requests
ClearNext ==
    \/ StoreNext
    \/ \E t \in Threads, confirm \in BOOLEAN :
          clear(t, confirm) /\ UNCHANGED <<retryVars, embedVars>>

SpecClear == Init /\ [][ClearNext]_vars

\* the event loop answering its first /ask request, over a wider retrieval
CiteNext ==
    \/ \E rs \in RetrievedWide :
          /\ job["loop"] = NoJob
          /\ StartCall("loop", "llm", rs) /\ UNCHANGED <<storeVars, embedVars>>
    \/ wait_for_rate_limit("loop") /\ UNCHANGED <<storeVars, embedVars>>
    \/ start_attempt("loop") /\ UNCHANGED <<storeVars, embedVars>>
    \/ attempt_returns("loop") /\ UNCHANGED <<storeVars, embedVars>>
    \/ Tick /\ UNCHANGED <<storeVars, embedVars>>

SpecCite == InitRetry /\ [][CiteNext]_vars

SpecEmbed == InitRetry /\ [][EmbedNext]_vars

\* ======================================================= the vector store
Quiescent == \A t \in Threads : pc[t] = "idle"

\* the entries of the document list that add_documents calls appended
AddedByCalls == SelectSeq(documents, LAMBDA d : d[1] # "disk")

\* thread t's add_documents call ends in this step
AddEnds(t) == call[t].kind = "add" /\ pc[t] # "idle" /\ pc'[t] = "idle"

\* C1: whenever the store is loaded and no call is in progress, the index
\* holds as many vectors as the document list holds entries, and every
\* index position has its docstore entry.
C1_IndexMatchesDocuments ==
    (vectorstore # None /\ Quiescent) =>
        /\ IndexCount(vectorstore) = get_document_count
        /\ EntryCount(vectorstore) = IndexCount(vectorstore)

\* C2 as stated: a call that no other call overlaps or precedes returns
\* len(chunks) with the index and the document list grown by exactly
\* len(chunks), or fails with the index count and document_count() as they
\* were when it was called.
C2_AllOrNothing ==
    [][\A t \in Threads :
         (AddEnds(t) /\ pre[t].alone /\ \A u \in Threads \ {t} : ncalls[u] = 0) =>
            IF ret'.st = "returned"
            THEN /\ ret'.n = Len(call[t].docs)
                 /\ get_document_count' = pre[t].count + ret'.n
                 /\ IndexCount(vectorstore)' = pre[t].ntotal + ret'.n
            ELSE /\ get_document_count' = pre[t].count
                 /\ IndexCount(vectorstore)' = pre[t].ntotal]_vars

\* C2 amended: a call returns len(chunks) having appended exactly
\* len(chunks) vectors to the handle it obtained and len(chunks) entries to
\* the document list, or it fails having appended no vector and no entry.
C2_AppendsAllOrNothing ==
    [][\A t \in Threads :
         AddEnds(t) =>
            IF ret'.st = "returned"
            THEN /\ ret'.n = Len(call[t].docs)
                 /\ added[t].vectors = ret'.n
                 /\ added[t].entries = ret'.n
            ELSE /\ ret'.st = "failed"
                 /\ added[t] = NoAdded]_vars

\* an add_documents call failed at the embedding after it had loaded the
\* index from disk
C2_FailedAfterLoad ==
    /\ ret = Failed("add")
    /\ vectorstore # None
    /\ get_document_count > 0
    /\ Quiescent

\* C3: once every call has finished, the entries that calls appended to the
\* document list number the sum of the counts the calls returned.
C3_CountIsSumOfReturned ==
    Quiescent => Len(AddedByCalls) = sumReturned

\* C4: every request the store sends to the embedding backend goes through
\* the provider's rate-limited caller.
C4_StoreRequestsAreLimited ==
    \A r \in embedReqs : r[1] \in {"create", "add", "search"} => r[2] = "limited"

\* C10: an index is loaded or constructed at most once, and every caller
\* holds the handle that is in memory.
C10_InitializeOnce ==
    /\ Len(handles) <= 1
    /\ \A t \in Threads : local[t] # None => local[t] = vectorstore

\* thread t is past the insertion into the index and before the end of
\* the persist step of its add_documents call
Mutating(t) == call[t].kind = "add" /\ pc[t] \in {"extend", "save1", "save2"}

\* C11: no two add_documents calls are at the same time between the start
\* of their index insertion and the end of their persist step.
C11_AddsAreSerialized ==
    \A t, u \in Threads : (Mutating(t) /\ Mutating(u)) => t = u

\* thread u's similarity_search reads the index in this step
SearchReads(u) ==
    /\ call[u].kind \in {"search", "ask"}
    /\ pc[u] = "search" /\ pc'[u] = "idle" /\ ret'.st = "results"

\* C12: when a search reads the index that a running add_documents call
\* works on, that call has appended its vectors and its document-list
\* entries both or neither.
C12_ReadsAreNotTorn ==
    [][\A u \in Threads :
         SearchReads(u) =>
            \A t \in Threads \ {u} :
               (call[t].kind = "add" /\ local[t] = local[u]) =>
                  added[t].vectors = added[t].entries]_vars

\* C13: whatever the process has written when it stops, an index artifact
\* and a metadata artifact that are both readable hold the same number of
\* vectors, document-list entries and docstore entries.
C13_DiskCountsAgree ==
    Readable =>
        /\ Len(disk.faiss.index) = Len(disk.pkl.documents)
        /\ Len(disk.faiss.index) = Len(disk.pkl.docstore)

\* C14: a load that finds both artifacts on disk does not go on to the
\* construction of a fresh index, as a load that finds none does.
C14_ReadErrorIsNotAbsence ==
    [][\A t \in Threads :
         (pc[t] = "load" /\ index_exists) => pc'[t] # "create"]_vars

\* C15: load_index, when an artifact is missing, returns False (the caller
\* goes on to build a fresh index) and leaves the handle and the document
\* list as they were; when it returns True the handle holds the index and
\* the docstore read from disk and the document list is the pickled one.
C15_LoadIsAllOrNothing ==
    [][\A t \in Threads :
         /\ (pc[t] = "load" /\ pc'[t] \in {"create", "load2"} /\ ~index_exists) =>
               /\ pc'[t] = "create"
               /\ UNCHANGED <<vectorstore, handles, documents>>
         /\ (pc[t] = "load" /\ pc'[t] = "load2") =>
               /\ Readable
               /\ vectorstore' # None
               /\ handles'[vectorstore'] =
                     [index |-> disk.faiss.index, docstore |-> disk.pkl.docstore]
               /\ data'[t] = disk.pkl.documents
         /\ (pc[t] = "load2" /\ pc'[t] = "ret") =>
               /\ documents' = data[t]
               /\ UNCHANGED <<vectorstore, handles>>]_vars

\* load_index has returned False in a process whose disk holds the index
\* artifact without its companion
C15_LoadWithOneArtifact ==
    \E t \in Threads :
        /\ pc[t] = "create"
        /\ OthersIdle(t)
        /\ disk.faiss.st = "ok"
        /\ disk.pkl.st = "absent"
        /\ vectorstore = None
        /\ documents = <<>>

\* C16: when a process loads what a complete save_index wrote, with no
\* other call running during the save and no other initialisation during
\* the load, the loaded document list, index and docstore are those the
\* saving process held.
C16_RoundTrip ==
    [][\A t \in Threads :
         (pc[t] = "load2" /\ pc'[t] = "ret" /\ OthersIdle(t)
                          /\ Len(handles) = 1 /\ persisted.st = "saved") =>
            /\ documents' = persisted.documents
            /\ get_document_count' = Len(persisted.documents)
            /\ handles'[vectorstore'].index = persisted.index
            /\ handles'[vectorstore'].docstore = persisted.docstore]_vars

\* a fresh process, in which no call has finished yet, has loaded chunks
\* that an add_documents call of an earlier process saved
C16_LoadedAfterRestart ==
    \E t \in Threads :
        /\ pc[t] = "ret"
        /\ OthersIdle(t)
        /\ ret = NoResult
        /\ persisted.st = "saved"
        /\ documents = persisted.documents
        /\ AddedByCalls # <<>>
        /\ Len(handles) = 1
        /\ handles[vectorstore].index = persisted.index

\* thread t's add_documents call ends in this step with a failed save_index
PersistFails(t) ==
    /\ AddEnds(t)
    /\ \/ pc[t] = "save1"
       \/ /\ pc[t] = "save2"
          /\ disk'.pkl # OnDisk(<<>>, documents, handles[vectorstore].docstore)

\* C17: a call whose save_index fails returns the count with its vectors and
\* entries still in memory, and a later save_index that completes with no
\* other call running leaves on disk the whole store held in memory.
C17_FailedPersistKeepsMemory ==
    [][/\ \A t \in Threads :
            PersistFails(t) =>
               /\ ret' = Returned(Len(call[t].docs))
               /\ added[t] = [vectors |-> Len(call[t].docs),
                              entries |-> Len(call[t].docs)]
               /\ UNCHANGED <<vectorstore, handles, documents>>
       /\ (persisted'.st = "saved" /\ persisted' # persisted) =>
               /\ disk'.faiss.index = handles'[vectorstore'].index
               /\ disk'.pkl.documents = documents'
               /\ disk'.pkl.docstore = handles'[vectorstore'].docstore
               /\ Readable']_vars

\* the first call's pickle write failed: memory holds its chunks and the
\* disk holds the index artifact alone
C17_MemoryAheadOfDisk ==
    /\ Quiescent
    /\ ncalls = [t1 |-> 1, t2 |-> 0]
    /\ ret = Returned(MaxBatch)
    /\ get_document_count = MaxBatch
    /\ IndexCount(vectorstore) = MaxBatch
    /\ disk.faiss.st = "ok"
    /\ disk.pkl.st = "absent"

\* nothing is held in memory or on disk
HoldsNothing ==
    /\ get_document_count = 0
    /\ \A h \in 1..Len(handles) : handles[h].index = <<>>
    /\ ~index_exists

\* C18: a similarity_search call on a store that holds no documents ends by
\* returning the empty sequence.
C18_EmptySearchReturnsNothing ==
    [][\A t \in Threads :
         (call[t].kind = "search" /\ pc[t] # "idle" /\ pc'[t] = "idle" /\ HoldsNothing) =>
            ret' = Results(<<>>)]_vars

\* thread t starts a request in this step
Starts(t) == pc[t] = "idle" /\ ncalls'[t] = ncalls[t] + 1

\* the request is an /ask: it goes on to the search or is answered at once
AskStep(t) ==
    Starts(t) /\ (call'[t].kind = "ask" \/ (pc'[t] = "idle" /\ ret'.kind = "ask"))

\* the request is a /stats, answered at once
StatsStep(t) == Starts(t) /\ pc'[t] = "idle" /\ ret'.st = "stats"

\* the step leaves the store in memory and on disk alone and sends nothing
\* to the embedding backend
StoreUntouched == UNCHANGED <<vectorstore, handles, documents, disk, embedReqs>>

C20_QueriesArePure ==
    [][\A t \in Threads :
         StatsStep(t) =>
            /\ StoreUntouched
            /\ UNCHANGED <<local, data>>
            /\ ret'.n = Len(documents)
            /\ ret'.exists = (disk.faiss.st # "absent" /\ disk.pkl.st # "absent")]_vars

\* /stats answered while only the index artifact was on disk, and while the
\* store was not loaded
C20_StatsWithOneArtifact ==
    /\ ret.st = "stats"
    /\ ~ret.exists
    /\ disk.faiss.st = "ok"
    /\ disk.pkl.st = "absent"

\* ================================================== rate-limited callers
\* the error text carries one of the rate-limit signals
RateLimitSignal(e) == ~e.ok /\ e.markers \cap Markers # {}

\* the error text carries none of them
PlainFailure(e) == ~e.ok /\ e.markers = {}

Called(c) == job[c].prov # "none"

\* caller c starts an attempt in this step
AttemptStarts(c) == rpc[c] # "call" /\ rpc'[c] = "call"

\* C5: an attempt on a provider starts no sooner than min_interval after
\* the previous attempt on that provider started, whichever caller made it.
C5_AttemptsAreSpaced ==
    [][\A c \in Callers :
         AttemptStarts(c) =>
            sinceLast[job[c].prov] >= MinInterval[job[c].prov]]_vars

\* C6: a call makes at most max_retries+1 attempts, and after an attempt
\* failed with a rate-limit signal the caller is backing off towards another
\* attempt, or it has ended having made max_retries+1 attempts.
C6_RateLimitFailureIsRetried ==
    \A c \in Callers :
        Called(c) =>
            /\ attempts[c] <= MaxRetries[job[c].prov] + 1
            /\ RateLimitSignal(lastErr[c]) =>
                  \/ rpc[c] \in {"backoff", "wait", "pace", "stamp"}
                  \/ rpc[c] = "idle" /\ attempts[c] = MaxRetries[job[c].prov] + 1

\* C7: once an attempt has failed without a rate-limit signal the caller
\* has ended by raising: it is in no backoff sleep and on no way to another
\* attempt.
C7_PlainFailurePropagates ==
    \A c \in Callers :
        PlainFailure(lastErr[c]) =>
            /\ rpc[c] = "idle"
            /\ inner[c] = Raised
            /\ sleep[c] = 0

\* each provider's caller raised a failure without a rate-limit signal while
\* retries remained, one of them after a retry
C7_RaisedWithBudgetLeft ==
    /\ \A c \in Callers :
          /\ PlainFailure(lastErr[c])
          /\ inner[c] = Raised
          /\ attempts[c] <= MaxRetries[job[c].prov]
    /\ job["loop"].prov = "llm"
    /\ attempts["loop"] = 2
    /\ sleeps["loop"] = 1
    /\ attempts["pool"] = 1

\* the /ask request of the event loop ended with every completion attempt
\* failed by a rate-limit signal
BudgetExhausted ==
    /\ job["loop"].kind = "ask"
    /\ rpc["loop"] = "idle"
    /\ attempts["loop"] = llm_max_retries + 1
    /\ RateLimitSignal(lastErr["loop"])

\* the non-empty sources among the chunks rs
SourcesOf(rs) == {rs[i].source : i \in 1..Len(rs)} \ {""}

\* C8: when every completion attempt failed with a rate-limit signal, the
\* retry loop and the answer are the fallback text, and the response is a
\* success carrying that text with one citation per retrieved source.
C8_ExhaustedGivesFallback ==
    BudgetExhausted =>
        /\ inner["loop"] = Fallback
        /\ outcome["loop"] = Fallback
        /\ response["loop"].status = 200
        /\ response["loop"].answer = "fallback"
        /\ LET cs == response["loop"].citations IN
           /\ {cs[i].url : i \in 1..Len(cs)} =
                 {IF IsUrl(src) THEN src ELSE "Uploaded file: " \o src :
                    src \in SourcesOf(job["loop"].results)}
           /\ Len(cs) = Cardinality(SourcesOf(job["loop"].results))

\* the budget was spent on "capacity exceeded" failures and the response
\* cites two sources
C8_FallbackWithCitations ==
    /\ BudgetExhausted
    /\ lastErr["loop"] = Error({"capacity exceeded"})
    /\ sleeps["loop"] = llm_max_retries
    /\ response["loop"].answer = "fallback"
    /\ Len(response["loop"].citations) = 2

\* C9: the answer of a call whose attempt failed without a rate-limit
\* signal is that failure, and the answer is the fallback text only after
\* max_retries+1 attempts failed with a rate-limit signal.
C9_PlainFailureReachesCaller ==
    (job["loop"].kind = "ask" /\ rpc["loop"] = "idle") =>
        /\ PlainFailure(lastErr["loop"]) => outcome["loop"] = Raised
        /\ outcome["loop"] = Fallback => BudgetExhausted

\* ============================================================== /clear
\* C21: clear(confirm=false) refuses and mutates nothing: the handle, the
\* index objects, the document list, document_count() and both artifacts
\* are after the call what they were before it, at every call.
C21_RefusedClearMutatesNothing ==
    [][\A t \in Threads :
         clear(t, FALSE) =>
            /\ ret' = Refused
            /\ UNCHANGED <<vectorstore, handles, documents, disk>>
            /\ get_document_count' = get_document_count
            /\ index_exists' = index_exists]_vars

\* the second of two calls was refused on a loaded store with both
\* artifacts on disk
C21_RefusedOnLoadedStore ==
    /\ ret = Refused
    /\ Quiescent
    /\ ncalls["t1"] = 2
    /\ vectorstore # None
    /\ get_document_count > 0
    /\ Readable

\* C22: clear(confirm=true) in any state deletes both artifacts, leaves the
\* store unloaded with document_count() 0 and returns success with the
\* number of documents held before and the files that were present; where
\* nothing was held in memory or on disk it returns 0 and no file.
C22_ConfirmedClearResets ==
    [][\A t \in Threads :
         clear(t, TRUE) =>
            /\ ret'.st = "cleared"
            /\ ret'.n = Len(documents)
            /\ ret'.files = SelectSeq(<<"faiss", "pkl">>,
                                      LAMBDA f : disk[f].st # "absent")
            /\ disk'.faiss.st = "absent" /\ disk'.pkl.st = "absent"
            /\ vectorstore' = None
            /\ Len(documents') = 0
            /\ (Len(documents) = 0 /\ disk.faiss.st = "absent"
                                   /\ disk.pkl.st = "absent") =>
                  (ret'.n = 0 /\ ret'.files = <<>>)]_vars

\* a confirmed clear removed a loaded store and both its artifacts
C22_ClearedLoadedStore ==
    /\ ret.st = "cleared"
    /\ ret.n > 0
    /\ ret.files = <<"faiss", "pkl">>
    /\ vectorstore = None
    /\ get_document_count = 0
    /\ ~index_exists_either
    /\ Len(handles) > 0

\* ============================================================ citations
\* the event loop has answered an /ask request
Answered == job["loop"].kind = "ask" /\ response["loop"].status = 200

\* what a citation shows for a source
UrlOf(src) == IF IsUrl(src) THEN src ELSE "Uploaded file: " \o src

\* the ranks at which a source appears for the first time
FirstOccurrences(rs) ==
    {i \in 1..Len(rs) :
        rs[i].source # "" /\ \A j \in 1..(i - 1) : rs[j].source # rs[i].source}

\* C23: the citations of an answer hold at most one entry per source, and
\* the entry of a source carries 1 - distance of the first, closest chunk
\* retrieved for that source.
C23_OneCitationPerSource ==
    Answered =>
        LET rs == job["loop"].results
            cs == response["loop"].citations
        IN /\ \A i, j \in 1..Len(cs) : cs[i].url = cs[j].url => i = j
           /\ \A k \in 1..Len(cs) :
                 \E i \in FirstOccurrences(rs) :
                    /\ cs[k].url = UrlOf(rs[i].source)
                    /\ cs[k].relevance_score = 10 - rs[i].distance

\* an answer over a retrieval in which the closest source comes back at a
\* later rank, with another source in between
C23_SourceRetrievedTwice ==
    /\ Answered
    /\ Len(job["loop"].results) >= 3
    /\ job["loop"].results[1].source = "doc1"
    /\ job["loop"].results[2].source = "https://a"
    /\ job["loop"].results[3].source = "doc1"
    /\ Len(response["loop"].citations) = 2

\* C24: the citations are the first five (or fewer) entries of the
\* deduplicated list, in the order in which their sources first appear
\* among the retrieved chunks.
C24_FirstFiveOfDeduplicated ==
    Answered =>
        LET rs == job["loop"].results
            cs == response["loop"].citations
            first == FirstOccurrences(rs)
        IN /\ Len(cs) <= 5
           /\ Len(cs) = Min(Cardinality(first), 5)
           /\ \A k \in 1..Len(cs) :
                 \E i \in first :
                    /\ Cardinality({j \in first : j < i}) = k - 1
                    /\ cs[k].url = UrlOf(rs[i].source)

\* an answer over six chunks of five sources, the first of them retrieved
\* twice: the sixth chunk's source is cited
C24_FiveOfSixChunks ==
    /\ Answered
    /\ Len(job["loop"].results) = 6
    /\ job["loop"].results[2].source = job["loop"].results[1].source
    /\ Cardinality(FirstOccurrences(job["loop"].results)) = 5
    /\ Len(response["loop"].citations) = 5

\* ========================================================= suspension
\* C25: while an /ask request waits in the pacing delay or in the backoff
\* delay of the completion caller, the handler of another request can take
\* a step.
C25_DelaysYield ==
    (/\ job["loop"].prov = "llm"
     /\ rpc["loop"] \in {"pace", "backoff"}
     /\ sleep["loop"] > 0) =>
        ENABLED (\E p \in Providers : \E rs \in RetrievedFor(p) :
                    StartCall("loop", p, rs))

\* ===================================================== embed_documents
\* the batches attempt a sent to the backend
SentIn(a) ==
    LET of == SelectSeq(batches, LAMBDA s : s[1] = a) IN
    [k \in 1..Len(of) |-> of[k][2]]

RECURSIVE Concat(_)
Concat(ss) == IF ss = <<>> THEN <<>> ELSE Head(ss) \o Concat(Tail(ss))

\* C26: a call that returns holds exactly one vector per text, in the order
\* of the texts, and the batches of the attempt that returned are
\* consecutive slices of at most batch_size texts that cover every text
\* once, also when earlier attempts failed in a later batch.
C26_OneVectorPerText ==
    embedded.kind = "value" =>
        /\ Len(embedded.vectors) = Len(texts)
        /\ \A k \in 1..Len(texts) : embedded.vectors[k] = [of |-> texts[k]]
        /\ Concat(SentIn(etry)) = texts
        /\ \A k \in 1..Len(SentIn(etry)) :
              Len(SentIn(etry)[k]) \in 1..batch_size

\* a call over three texts in batches of two returned after an attempt
\* that failed in its second batch
C26_ReturnedAfterRetry ==
    /\ embedded.kind = "value"
    /\ Len(texts) = 3
    /\ texts[1] # texts[2]
    /\ batch_size = 2
    /\ etry = 1
    /\ Len(SentIn(0)) = 2

\* =============================================================== signals
\* C27: the callers of the two providers treat the same failure alike: of
\* two callers whose first attempt failed with the same error text, both
\* have gone into a backoff sleep or neither has.
C27_SameSignalsForBothProviders ==
    \A c, d \in Callers :
        (/\ Called(c) /\ Called(d)
         /\ attempts[c] = 1 /\ attempts[d] = 1
         /\ ~lastErr[c].ok
         /\ lastErr[c] = lastErr[d]) =>
            sleeps[c] = sleeps[d]

\* ==================================================== failed construction
\* thread t's call ends in this step in _create_new_vectorstore
CreateFails(t) == pc[t] = "create" /\ pc'[t] = "idle"

\* C28: a call that fails while the fresh index is constructed leaves the
\* handle, the document list and the disk as they were and ends with the
\* failure, and every call that starts on an unloaded store goes into the
\* initialisation.
C28_FailedCreateLeavesUnloaded ==
    [][\A t \in Threads :
         /\ CreateFails(t) =>
               /\ ret' = Failed(call[t].kind)
               /\ UNCHANGED <<vectorstore, handles, documents, disk>>
               /\ get_document_count' = get_document_count
         /\ (Starts(t) /\ pc'[t] # "idle" /\ vectorstore = None) =>
               pc'[t] = "load"]_vars

\* the first call failed constructing the fresh index and the same
\* thread's second call is constructing it again
C28_CreatesAgain ==
    /\ ret = Failed("add")
    /\ handles = <<>>
    /\ vectorstore = None
    /\ get_document_count = 0
    /\ ~index_exists_either
    /\ ncalls = [t1 |-> 2, t2 |-> 0]
    /\ pc["t1"] = "create"

\* ======================================================= persisted data
\* C29: no step leaves readable artifacts holding fewer documents than the
\* readable artifacts held before it.
C29_PersistedNeverShrinks ==
    [][(Readable /\ Readable') =>
          /\ Len(disk'.pkl.documents) >= Len(disk.pkl.documents)
          /\ Len(disk'.faiss.index) >= Len(disk.faiss.index)]_vars

\* ============================================================= ingestion
\* C30: when the background task of an acknowledged batch ends, the
\* document list holds the chunks of the batch.
C30_AcknowledgedBatchIsAdded ==
    [][\A t \in Threads :
         AddEnds(t) =>
            Len(SelectSeq(documents', LAMBDA d : d = call[t].docs[1]))
               = Len(call[t].docs)]_vars

====
